---------------------------- MODULE Spec2Model ----------------------------
(***************************************************************************)
(* State-machine model of the FortniteCloneJS prototype: the Player        *)
(* (src/src/main.ts, the copy that takes a World), the World's trees       *)
(* (src/src/core/World.ts) and the Game bootstrap and frame loop           *)
(* (src/src/systems/InputManager.ts).                                      *)
(*                                                                         *)
(* Engine services whose result the program only reads (raycasts, the      *)
(* physics step, thrown library errors) are inputs chosen with \E.         *)
(* Browser scheduling is modelled by Frame: a requestAnimationFrame        *)
(* callback registered during one frame runs once in the next frame.       *)
(***************************************************************************)
EXTENDS Integers, Sequences, FiniteSets, TLC

VARIABLES
    \* ---- Player statistics and weapon (main.ts Player fields) ----
    health,          \* Player.health
    wood,            \* Player.wood
    woodUI,          \* number shown by the #woodCount element
    currentWeapon,   \* Player.currentWeapon
    pickaxeVisible,  \* pickaxeModel.visible
    gunVisible,      \* gunModel.visible
    weaponSlots,     \* Player.weaponSlots: highlight flag of each slot element
    \* ---- pickaxe swing ----
    isSwinging,      \* Player.isSwinging
    swingRaf,        \* the swing closure's requestAnimationFrame registration
    swingElapsed,    \* Date.now() - startTime of the running swing closure
    pickaxeRotation, \* pickaxeModel.rotation.x, in thousandths of a radian
    initialRotation, \* the closure's clone of the rotation at swing start
    swingChains,     \* swing closures registered with requestAnimationFrame
    swingHits,       \* handleTreeHit calls made by the running swing closure
    swingRefused,    \* a swingPickaxe call returned at its first test
                     \* while the current swing was running
    \* ---- World trees ----
    treeData,        \* World.treeData: tracked tree -> hit counter
    treesChildren,   \* children of the World.trees group
    treeBodies,      \* tree colliders present in the physics world
    hitCalls,        \* per tree: number of handleTreeHit calls made on it
    hitReturned,     \* value returned by the last handleTreeHit call
    hitEffects,      \* particle groups spawned by createHitEffect so far
    destructionEffects, \* particle bursts spawned by createDestructionEffect
    debugLine,       \* the swing's debug line: "absent", "empty" or "drawn"
    \* ---- input and movement ----
    listening,       \* Player.setupControls has registered the listeners
    pointerLocked,   \* document.pointerLockElement === document.body
    moveState,       \* Player.moveState
    yaw,             \* yawObject.rotation.y, in quarter turns
    pitch,           \* pitchObject.rotation.x, in quarter turns
    velX, velY, velZ, \* playerBody.velocity, in 1/Fixed units
    isJumping,       \* Player.isJumping
    bodyY,           \* height of the body's underside above the ground, mm
    rigY,            \* yawObject.position.y above the resting body centre, mm
    groundRay,       \* what the 1.2-unit downward ray reports at the body
    \* ---- bullets ----
    spawned,         \* number of bullets created by shoot() so far
    bulletMeshes,    \* bullet meshes that are children of the scene
    bulletTrails,    \* trail lines that are children of the scene
    bulletBodies,    \* bullet bodies present in the physics world
    bulletRaf,       \* per bullet: registration of its updateBullet closure
    bulletTimer,     \* per bullet: its 2000 ms timeout
    bulletAge,       \* per bullet: milliseconds since shoot() set the timeout
    bulletRemovals,  \* per bullet: times the removal block has run for it
    bulletStart,     \* per bullet: start position minus camera position,
                     \* in 1/DirScale
    bulletVelocity,  \* per bullet: initial velocity of its body, in 1/Fixed
    \* ---- gun recoil ----
    gunZ,            \* gunModel.position.z, in 1/1000 from its rest value
    gunRotX,         \* gunModel.rotation.x, in 1/1000 radian from rest
    recoils,         \* running recoil closures, in registration order
    \* ---- effect animations ----
    followed,        \* the model follows the frame callbacks of the effect
                     \* animations (tree shake, gun recoil)
    shakes,          \* running shakeTree closures, in registration order
    treeRotation,    \* per tree: rotation << x, z >> in 1/10000 radian
    particles,       \* particle groups with a child or a registered closure
    sceneGroups,     \* particle groups that are children of the scene
    \* ---- Game ----
    gameState,       \* "loading", "running" or "failed"
    bootFailure,     \* what failed during construction ("none": nothing)
    overlays,        \* error overlay elements appended to the document
    ctorCaught,      \* errors caught by the Game constructor's catch
    bootCaught,      \* errors caught by the DOMContentLoaded handler's catch
    playerArgs,      \* arguments of the Player constructor call, << >> before
    playerError,     \* message of the error the Player constructor threw
    playerMade,      \* what the Player constructor added or registered
    players,         \* NetworkManager.players: the ids that have an entry
    localPlayerId,   \* NetworkManager.localPlayerId (NoId: the empty string)
    playerCount,     \* number written to #player-count (NotWritten: none yet)
    gameRaf,         \* Game.animate's requestAnimationFrame registration
    frameLog,        \* steps completed by the current Game.animate call
    frameRequests,   \* requestAnimationFrame calls made by that animate call
    errorsLogged,    \* errors caught and logged by Game.animate
    uncaught         \* errors that left Game.animate uncaught

statsVars  == << health >>
weaponVars == << currentWeapon, pickaxeVisible, gunVisible, weaponSlots >>
woodVars   == << wood, woodUI >>
swingVars  == << isSwinging, swingRaf, swingElapsed, debugLine,
                 pickaxeRotation, initialRotation, swingChains, swingRefused,
                 swingHits >>
effectVars == << followed, shakes, treeRotation, particles, sceneGroups >>
treeVars   == << treeData, treesChildren, treeBodies, hitCalls, hitReturned,
                 hitEffects, destructionEffects, effectVars >>
inputVars  == << listening, pointerLocked, moveState, yaw, pitch >>
bodyVars   == << velX, velY, velZ, isJumping, groundRay, bodyY, rigY >>
recoilVars == << gunZ, gunRotX, recoils >>
shotVars   == << bulletStart, bulletVelocity >>
bulletVars == << spawned, bulletMeshes, bulletTrails, bulletBodies, bulletRaf,
                 bulletTimer, bulletAge, bulletRemovals, recoilVars,
                 shotVars >>
ctorVars   == << playerArgs, playerError, playerMade >>
netVars    == << players, localPlayerId, playerCount >>
bootVars   == << gameState, bootFailure, overlays, ctorCaught, bootCaught,
                ctorVars, netVars >>
loopVars   == << gameRaf, frameLog, frameRequests, errorsLogged, uncaught >>

vars == << statsVars, weaponVars, woodVars, swingVars, treeVars, inputVars,
           bodyVars, bulletVars, bootVars, loopVars >>

-----------------------------------------------------------------------------
(* Bounds of the model *)

\* health and wood are cut off at this magnitude (the code has no such limit)
MaxStat == 600

\* number of trees scattered by createTrees (the code scatters 50)
NumTrees == 2

Trees == 1..NumTrees

\* amounts passed to damage / heal
HealthAmounts == {-150, -40, -7, 0, 7, 40, 150}

\* amounts passed to addWood
WoodAmounts == {-495, 495}

Min(a, b) == IF a < b THEN a ELSE b
Max(a, b) == IF a > b THEN a ELSE b

\* a / b rounded to the nearest integer (b > 0)
RoundDiv(a, b) ==
    IF a >= 0 THEN (2 * a + b) \div (2 * b)
    ELSE -((2 * (-a) + b) \div (2 * b))

-----------------------------------------------------------------------------
(* Player: health *)

\* health after damage(amount): Math.max(0, health - amount)
DamagedHealth(h, amount) == Max(0, h - amount)

\* health after heal(amount): Math.min(100, health + amount)
HealedHealth(h, amount) == Min(100, h + amount)

damage(amount) ==
    /\ health' = DamagedHealth(health, amount)
    /\ health' \in -MaxStat..MaxStat
    /\ UNCHANGED << weaponVars, woodVars, swingVars, treeVars, inputVars,
                    bodyVars, bulletVars, bootVars, loopVars >>

heal(amount) ==
    /\ health' = HealedHealth(health, amount)
    /\ health' \in -MaxStat..MaxStat
    /\ UNCHANGED << weaponVars, woodVars, swingVars, treeVars, inputVars,
                    bodyVars, bulletVars, bootVars, loopVars >>

-----------------------------------------------------------------------------
(* Player: weapons *)

PICKAXE == "pickaxe"
GUN == "gun"
WeaponType == {PICKAXE, GUN}

\* slot index (1-based here, 0-based in the code) highlighted for a weapon
SlotHighlighted(index, weapon) ==
    \/ (index = 1 /\ weapon = PICKAXE)
    \/ (index = 2 /\ weapon = GUN)

\* weaponSlots after updateWeaponVisibility's forEach over the existing slots
HighlightSlots(slots, weapon) ==
    [i \in DOMAIN slots |-> SlotHighlighted(i, weapon)]

\* pickaxeModel.visible as set by updateWeaponVisibility
PickaxeShown(weapon) == weapon = PICKAXE

\* variant: the gun model is shown whenever the pickaxe was equipped before
GunShownStale(weapon) == weapon = PICKAXE

\* gunModel.visible as set by updateWeaponVisibility
GunShown(weapon) == weapon = GUN

\* createWeaponSlotsUI pushes two slots with the plain (not highlighted) border
createWeaponSlotsUI(slots) == slots \o << FALSE, FALSE >>

\* switchWeapon followed by updateWeaponVisibility (writes weaponVars only)
switchWeapon(weapon) ==
    /\ currentWeapon' = weapon
    /\ pickaxeVisible' = PickaxeShown(weapon)
    /\ gunVisible' = GunShown(weapon)
    /\ weaponSlots' = HighlightSlots(weaponSlots, weapon)

-----------------------------------------------------------------------------
(* Player: wood *)

addWood(amount) ==
    /\ wood' = wood + amount
    /\ wood' \in -MaxStat..MaxStat
    /\ UNCHANGED << woodUI, statsVars, weaponVars, swingVars, treeVars,
                    inputVars, bodyVars, bulletVars, bootVars, loopVars >>

-----------------------------------------------------------------------------
(* World: trees *)

\* hit counter given to every tree by createTrees
TreeHealth == 5

\* wood returned by handleTreeHit for a tracked tree
WoodPerHit == 10

\* no tree: the ray met nothing that belongs to a tree
NoTree == 0

\* hitReturned before the first handleTreeHit call
NoReturn == -1

\* handleTreeHit calls on one object in one run of the model
MaxCalls == 6

\* treeData.get(treeObject) finds an entry
TreeTracked(t) == t \in DOMAIN treeData

\* World.getTreeCount: treeData.size
getTreeCount == Cardinality(DOMAIN treeData)

\* variant: a hit takes two from the counter
HealthAfterHitDouble(h) == h - 2

\* data.health--
HealthAfterHit(h) == h - 1

\* variant of the destruction test: the tree survives a counter of zero
TreeDestroyedBelowZero(h) == h < 0

\* the destruction test of handleTreeHit: data.health <= 0
TreeDestroyed(h) == h <= 0

\* variant: wood is returned for an object without an entry as well
HitReturnAlways(t) == WoodPerHit

\* variant: the call that destroys the tree returns nothing
HitReturnSurvivors(t) ==
    IF TreeTracked(t) /\ ~TreeDestroyed(HealthAfterHit(treeData[t]))
    THEN WoodPerHit ELSE 0

\* return value of handleTreeHit(t) in the current state
HitReturn(t) == IF TreeTracked(t) THEN WoodPerHit ELSE 0

\* variant: the collider of a destroyed tree stays in the physics world
BodiesKept(bodies, t) == bodies

\* this.physicsWorld.removeBody(data.physicsBody)
BodiesAfterDestroy(bodies, t) == bodies \ {t}

\* shakeAmount of shakeTree, in 1/10000 radian
shakeAmount == 1000

\* Math.sin(time) * shakeAmount after n additions of 0.1 to time
ShakeSin ==
    << 100, 199, 296, 389, 479, 565, 644, 717, 783, 841, 891, 932, 964, 985,
       997, 1000, 992, 974, 946, 909, 863, 808, 746, 675, 598, 516, 427, 335,
       239, 141, 42, -58, -158, -256, -351, -443, -530, -612, -688, -757,
       -818, -872, -916, -952, -978, -994, -1000, -996, -982, -959, -926,
       -883, -832, -773, -706, -631, -551, -465, -374, -279, -182, -83, 17 >>

\* Math.cos(time) * shakeAmount after n additions of 0.1 to time
ShakeCos ==
    << 995, 980, 955, 921, 878, 825, 765, 697, 622, 540, 454, 362, 267, 170,
       71, -29, -129, -227, -323, -416, -505, -589, -666, -737, -801, -857,
       -904, -942, -971, -990, -999, -998, -987, -967, -936, -897, -848,
       -791, -726, -654, -575, -490, -401, -307, -211, -112, -12, 87, 187,
       284, 378, 469, 554, 635, 709, 776, 835, 886, 927, 960, 983, 997,
       1000 >>

\* time > Math.PI * 2, with time = n / 10
ShakeDone(n) == n * 10000 > 62832 * 10

\* World.shakeTree(t) up to its requestAnimationFrame: the closure keeps a
\* clone of the tree's rotation at the call and its own time
shakeTree(t) ==
    Append(shakes, [tree |-> t, originalRotation |-> treeRotation[t],
                    time |-> 0])

\* one run of a shake closure `animate` on the rotations rot: the new
\* rotations and whether the closure registered itself again
ShakeAnimate(sh, rot) ==
    LET n == sh.time + 1
        o == sh.originalRotation
    IN  IF ShakeDone(n)
        THEN [rot |-> [rot EXCEPT ![sh.tree] = o], again |-> FALSE, time |-> n]
        ELSE [rot |-> [rot EXCEPT ![sh.tree] =
                           << o[1] + ShakeSin[n], o[2] + ShakeCos[n] >>],
              again |-> TRUE, time |-> n]

\* the shake closures of one animation frame, run in registration order
RECURSIVE RunShakes(_, _)
RunShakes(todo, rot) ==
    IF todo = << >>
    THEN [shakes |-> << >>, rot |-> rot]
    ELSE LET r    == ShakeAnimate(Head(todo), rot)
             rest == RunShakes(Tail(todo), r.rot)
         IN  [shakes |-> IF r.again
                         THEN << [Head(todo) EXCEPT !.time = r.time] >>
                              \o rest.shakes
                         ELSE rest.shakes,
              rot |-> rest.rot]

\* particles of a hit effect and of a destruction effect
hitParticleCount == 10
destructionParticleCount == 20

\* particle.scale.x of a new mesh (1.0)
ScaleUnit == 1000000

\* particle.scale.multiplyScalar(0.95)
shrinkPercent == 95
Shrunk(scale) == RoundDiv(scale * shrinkPercent, 100)

\* variant of the removal test: a particle is never small enough
ParticleGoneNever(scale) == FALSE

\* particle.scale.x < 0.01
ParticleGone(scale) == scale * 100 < ScaleUnit

\* createHitEffect / createDestructionEffect: count particles added to a new
\* group, one closure registered for each, the group added to the scene.
\* Positions and velocities of the particles are drawn at random and read by
\* no test; the model leaves them out.
createEffect(count) ==
    [scale    |-> [i \in 1..count |-> ScaleUnit],
     children |-> 1..count,
     pending  |-> 1..count,
     inScene  |-> TRUE]

\* one run of the closure `animate` of particle i of group g
ParticleAnimate(g, i) ==
    LET sc == Shrunk(g.scale[i])
        ch == g.children \ {i}
    IN  IF ParticleGone(sc)
        THEN [scale    |-> [g.scale EXCEPT ![i] = sc],
              children |-> ch,
              pending  |-> g.pending \ {i},
              inScene  |-> IF ch = {} THEN FALSE ELSE g.inScene]
        ELSE [g EXCEPT !.scale[i] = sc]

\* the closures of group g registered for this frame, from particle i on
RECURSIVE AnimateGroup(_, _)
AnimateGroup(g, i) ==
    IF i \notin DOMAIN g.scale THEN g
    ELSE IF i \in g.pending
    THEN CHOOSE r \in {AnimateGroup(h, i + 1) : h \in {ParticleAnimate(g, i)}} :
            TRUE
    ELSE AnimateGroup(g, i + 1)

\* the particle closures of one animation frame: the groups that still have
\* a child or a registered closure, and how many groups left the scene
RECURSIVE RunParticles(_)
RunParticles(todo) ==
    IF todo = << >>
    THEN [groups |-> << >>, removed |-> 0]
    ELSE CHOOSE r \in
            {[groups  |-> IF g.children # {} \/ g.pending # {}
                          THEN << g >> \o rest.groups ELSE rest.groups,
              removed |-> rest.removed
                          + (IF Head(todo).inScene /\ ~g.inScene
                             THEN 1 ELSE 0)] :
                g \in {AnimateGroup(Head(todo), 1)},
                rest \in {RunParticles(Tail(todo))}} : TRUE

\* the particle groups a call handleTreeHit(t) creates
EffectsOfHit(t) ==
    IF ~followed \/ ~TreeTracked(t) THEN << >>
    ELSE IF TreeDestroyed(HealthAfterHit(treeData[t]))
    THEN << createEffect(hitParticleCount),
            createEffect(destructionParticleCount) >>
    ELSE << createEffect(hitParticleCount) >>

\* state change of World.handleTreeHit(t, hitPoint)
handleTreeHit(t) ==
    /\ hitCalls' = [hitCalls EXCEPT ![t] = @ + 1]
    /\ hitReturned' = HitReturn(t)
    /\ UNCHANGED << followed, treeRotation >>
    /\ shakes' = IF followed /\ TreeTracked(t)
                    /\ ~TreeDestroyed(HealthAfterHit(treeData[t]))
                 THEN shakeTree(t) ELSE shakes
    /\ particles' = particles \o EffectsOfHit(t)
    /\ sceneGroups' = sceneGroups + Len(EffectsOfHit(t))
    /\ IF ~TreeTracked(t)
       THEN UNCHANGED << treeData, treesChildren, treeBodies, hitEffects,
                         destructionEffects >>
       ELSE LET h == HealthAfterHit(treeData[t]) IN
            /\ hitEffects' = hitEffects + 1
            /\ IF TreeDestroyed(h)
               THEN /\ treesChildren' = treesChildren \ {t}
                    /\ treeBodies' = BodiesAfterDestroy(treeBodies, t)
                    /\ treeData' = [u \in DOMAIN treeData \ {t} |-> treeData[u]]
                    /\ destructionEffects' = destructionEffects + 1
               ELSE /\ treeData' = [treeData EXCEPT ![t] = h]
                    /\ UNCHANGED << treesChildren, treeBodies,
                                    destructionEffects >>

\* World.handleTreeHit called on its own (it is a public method), with any
\* tree group ever created, tracked or already destroyed
HandleTreeHitCall(t) ==
    /\ gameState # "loading"
    /\ hitCalls[t] < MaxCalls
    /\ handleTreeHit(t)
    /\ UNCHANGED << statsVars, weaponVars, woodVars, swingVars, inputVars,
                    bodyVars, bulletVars, bootVars, loopVars >>

-----------------------------------------------------------------------------
(* Player: pickaxe swing *)

\* duration of a swing in milliseconds
swingDuration == 500

\* cap of the wood count applied when a hit is credited
WoodCap == 500

\* milliseconds between two animation frames
FrameDeltas == {74, 75, 76}

\* progress = Math.min(1, elapsed / swingDuration), kept as the numerator
\* over swingDuration
Progress(elapsed) == Min(swingDuration, elapsed)

\* variant of the hit window without its upper end
InHitWindowNoUpper(elapsed) == Progress(elapsed) * 100 >= 45 * swingDuration

\* progress >= 0.45 && progress <= 0.60
InHitWindow(elapsed) ==
    /\ Progress(elapsed) * 100 >= 45 * swingDuration
    /\ Progress(elapsed) * 100 <= 60 * swingDuration

\* progress < 1: the swing closure registers itself again
SwingContinues(elapsed) == Progress(elapsed) < swingDuration

\* Math.min(this.wood + woodAmount, 500), stored only when it is larger
CreditedWood(w, amount) ==
    LET newWoodAmount == Min(w + amount, WoodCap)
    IN  IF newWoodAmount > w THEN newWoodAmount ELSE w

\* objects the swing raycast can return: children of the trees group
RayTargets == treesChildren \cup {NoTree}

\* Math.sin(progress * Math.PI) * Math.PI / 2 in thousandths of a radian,
\* the sine taken as the parabola with the same zeros and the same maximum
SwingAngle(elapsed) ==
    LET p == Progress(elapsed)
    IN  RoundDiv(4 * p * (swingDuration - p) * 1571,
                 swingDuration * swingDuration)

\* variant: a swing may start while another one runs
SwingRefusedNever(swinging) == FALSE

\* if (this.isSwinging) return
SwingRefused(swinging) == swinging

\* swingPickaxe up to its first requestAnimationFrame (writes swingVars only)
swingPickaxe ==
    IF SwingRefused(isSwinging)
    THEN /\ swingRefused' = TRUE
         /\ UNCHANGED << isSwinging, swingRaf, swingElapsed, debugLine,
                         pickaxeRotation, initialRotation, swingChains,
                         swingHits >>
    ELSE /\ swingRefused' = FALSE
         /\ swingHits' = 0
         /\ isSwinging' = TRUE
         /\ swingElapsed' = 0
         /\ debugLine' = "empty"
         /\ swingRaf' = "scheduled"
         /\ swingChains' = swingChains + 1
         /\ initialRotation' = pickaxeRotation
         /\ UNCHANGED pickaxeRotation

\* variant: the flag is left set when the swing ends
SwingingLeftSet == TRUE

\* this.isSwinging = false
SwingingAtEnd == FALSE

\* the end of the swing closure `animate`: it registers itself again while
\* progress < 1, and otherwise restores the rotation and clears isSwinging
SwingStep ==
    IF SwingContinues(swingElapsed)
    THEN /\ swingRaf' = "scheduled"
         /\ pickaxeRotation' = initialRotation + SwingAngle(swingElapsed)
         /\ UNCHANGED << isSwinging, swingElapsed, initialRotation,
                         swingChains, swingRefused >>
    ELSE /\ pickaxeRotation' = initialRotation
         /\ debugLine' = "absent"
         /\ swingRaf' = "none"
         /\ swingChains' = swingChains - 1
         /\ swingRefused' = FALSE
         /\ isSwinging' = SwingingAtEnd
         /\ swingElapsed' = 0
         /\ UNCHANGED initialRotation

\* variant: a hit is skipped when the wood count is at the cap
ValidHitBelowCap(target) == target # NoTree /\ wood < WoodCap

\* treeGroup && intersect.object.userData.isTreePart, for the first
\* intersection that passes it
ValidHit(target) == target # NoTree

\* one run of the swing closure `animate`; target is the first valid
\* intersection of the raycast with the trees group (NoTree: none)
SwingAnimate(target) ==
    /\ swingRaf = "due"
    /\ SwingStep
    /\ IF InHitWindow(swingElapsed)
       THEN /\ IF ValidHit(target)
               THEN /\ handleTreeHit(target)
                    /\ wood' = CreditedWood(wood, HitReturn(target))
                    /\ woodUI' = IF wood' > wood THEN wood' ELSE woodUI
               ELSE UNCHANGED << treeVars, woodVars >>
            /\ SwingContinues(swingElapsed) => debugLine' = "drawn"
       ELSE /\ UNCHANGED << treeVars, woodVars >>
            /\ SwingContinues(swingElapsed) => UNCHANGED debugLine
    /\ swingHits' = IF ~SwingContinues(swingElapsed) THEN 0
                    ELSE IF InHitWindow(swingElapsed) /\ ValidHit(target)
                         THEN swingHits + 1
                         ELSE swingHits
    /\ UNCHANGED << statsVars, weaponVars, inputVars, bodyVars, bulletVars,
                    bootVars, loopVars >>

-----------------------------------------------------------------------------
(* Fixed-point arithmetic standing for the doubles of the movement code:    *)
(* a velocity v is held as v * Fixed, a unit-vector component or a factor    *)
(* below 1 as its value * DirScale, and every operation rounds its exact     *)
(* result to the nearest representable value, as IEEE arithmetic does.       *)

\* velocity units per 1.0
Fixed == 100

\* units per 1.0 of direction components and of the clamp's scale factor
DirScale == 10000

RECURSIVE FloorSqrtIn(_, _, _)
\* the largest r in lo..hi with r * r <= n
FloorSqrtIn(n, lo, hi) ==
    IF lo >= hi THEN lo
    ELSE LET mid == (lo + hi + 1) \div 2
         IN  IF mid * mid <= n THEN FloorSqrtIn(n, mid, hi)
             ELSE FloorSqrtIn(n, lo, mid - 1)

\* Math.sqrt(n) rounded to the nearest integer (n < 2^30)
RoundSqrt(n) ==
    LET r == FloorSqrtIn(n, 0, 32767)
    IN  IF n - r * r > r THEN r + 1 ELSE r

-----------------------------------------------------------------------------
(* Player: movement *)

moveSpeed == 15
jumpForce == 7
maxVelocity == 20

\* horizontal velocities <<x, z>> the physics step can leave on the body
HVelPairs ==
    {<< 0, 0 >>, << 5, -12 >>, << 20, 0 >>, << 14, 15 >>, << -21, -21 >>,
     << 30, 40 >>, << -60, 59 >>}

\* vertical velocities the physics step can leave on the body
VVelGrid == {-5}

\* variant of the jump test that forgets the ground ray
JumpAllowedInAir(hasHit, jumping) == ~jumping

\* result.hasHit && !this.isJumping
JumpAllowed(hasHit, jumping) == hasHit /\ ~jumping

\* Player.jump (writes velY and isJumping only)
jump ==
    IF JumpAllowed(groundRay, isJumping)
    THEN /\ isJumping' = TRUE
         /\ velY' = jumpForce * Fixed
    ELSE UNCHANGED << isJumping, velY >>

\* moveDirection before normalisation
MoveDirX(ms) == (IF ms.right THEN 1 ELSE 0) - (IF ms.left THEN 1 ELSE 0)
MoveDirZ(ms) == (IF ms.backward THEN 1 ELSE 0) - (IF ms.forward THEN 1 ELSE 0)

\* 1 / sqrt(2) in DirScale units
InvSqrt2 == RoundSqrt((DirScale * DirScale) \div 2)

\* a component of moveDirection.normalize(); lengthSq is 1 or 2
Normalized(d, lengthSq) == IF lengthSq = 1 THEN d * DirScale ELSE d * InvSqrt2

\* cosine and sine of a yaw of k quarter turns
Cos4(k) == CASE k = 0 -> 1 [] k = 1 -> 0 [] k = 2 -> -1 [] OTHER -> 0
Sin4(k) == CASE k = 0 -> 0 [] k = 1 -> 1 [] k = 2 -> 0 [] OTHER -> -1

\* moveDirection.applyEuler(new Euler(0, yaw, 0)): rotation about Y
RotatedX(x, z, k) == x * Cos4(k) + z * Sin4(k)
RotatedZ(x, z, k) == z * Cos4(k) - x * Sin4(k)

\* moveDirection.x * this.moveSpeed, in velocity units
TargetVelocity(dir) == RoundDiv(dir * moveSpeed * Fixed, DirScale)

\* velocity.x += (targetVelocity.x - velocity.x) * (onGround ? 0.5 : 0.1)
Blended(v, target, onGround) ==
    v + RoundDiv((target - v) * (IF onGround THEN 5 ELSE 1), 10)

\* velocity.x *= 0.9
Slowed(v) == RoundDiv(v * 9, 10)

\* Math.sqrt(velocity.x * velocity.x + velocity.z * velocity.z)
HorizontalVel(x, z) == RoundSqrt(x * x + z * z)

\* variant of the clamp that never scales
ClampedNever(v, horizontalVel) == v

\* if (horizontalVel > maxVelocity) velocity.x *= maxVelocity / horizontalVel
Clamped(v, horizontalVel) ==
    IF horizontalVel > maxVelocity * Fixed
    THEN RoundDiv(v * RoundDiv(maxVelocity * Fixed * DirScale, horizontalVel),
                  DirScale)
    ELSE v

\* variant of the steering step: friction also acts on a body in the air
SteeredVelAirFriction(x, z, ms, k, onGround) == << Slowed(x), Slowed(z) >>

\* horizontal velocity <<x, z>> after the blend or friction step
SteeredVel(x, z, ms, k, onGround) ==
    LET dx == MoveDirX(ms)
        dz == MoveDirZ(ms)
        lengthSq == dx * dx + dz * dz
    IN  IF lengthSq > 0
        THEN LET nx == Normalized(dx, lengthSq)
                 nz == Normalized(dz, lengthSq)
             IN  << Blended(x, TargetVelocity(RotatedX(nx, nz, k)), onGround),
                    Blended(z, TargetVelocity(RotatedZ(nx, nz, k)), onGround) >>
        ELSE IF onGround THEN << Slowed(x), Slowed(z) >>
        ELSE << x, z >>

\* eye height added to the body position, mm
eyeHeight == 1700

\* yawObject.position.copy(playerBody.position); position.y += 1.7
RigPosition(h) == h + eyeHeight

\* Player.applyMovement on a body whose velocity is (x, ., z) and whose
\* ground ray reports onGround (writes velX, velZ and isJumping)
applyMovement(x, z, onGround) ==
    LET steered == SteeredVel(x, z, moveState, yaw, onGround)
        horizontalVel == HorizontalVel(steered[1], steered[2])
    IN  /\ isJumping' = IF onGround THEN FALSE ELSE isJumping
        /\ velX' = Clamped(steered[1], horizontalVel)
        /\ velZ' = Clamped(steered[2], horizontalVel)

-----------------------------------------------------------------------------
(* Player: gun *)

\* bullets that shoot() can create in one run of the model
MaxBullets == 2

Bullets == 1..MaxBullets

\* delay of the timeout that removes a bullet, in milliseconds
BulletLifetime == 2000

\* bullet.parent is set: the mesh is still a child of the scene
BulletAttached(meshes, b) == b \in meshes

\* variant of the timeout's test: the timeout removes unconditionally
TimeoutRemovesAlways(meshes, b) == TRUE

\* the timeout's test: if (bullet.parent)
TimeoutRemoves(meshes, b) == BulletAttached(meshes, b)

\* variant of the early return of updateBullet: it never stops
UpdateStopsNever(meshes, b) == FALSE

\* the early return of updateBullet: if (!bullet.parent) return
UpdateStops(meshes, b) == ~BulletAttached(meshes, b)

\* this.gunModel.position.z += 0.1, in 1/1000
recoilZ == 100

\* this.gunModel.rotation.x += 0.05, in 1/1000 radian
recoilRot == 50

\* duration of the recoil animation in milliseconds
recoilDuration == 150

\* amount * ease, with progress = Math.min(1, elapsed / duration) and
\* ease = 1 - Math.pow(1 - progress, 3)
RecoilEase(amount, elapsed) ==
    LET q == recoilDuration - Min(elapsed, recoilDuration)
    IN  amount - RoundDiv(amount * q * q * q,
                          recoilDuration * recoilDuration * recoilDuration)

\* progress < 1 in the recoil closure
RecoilContinues(elapsed) == elapsed < recoilDuration

\* the closure recoil() of shoot, its first synchronous animate() call
\* included (elapsed 0: the pose stays at startPos, startRot)
recoil ==
    IF followed
    THEN /\ gunZ' = gunZ + recoilZ
         /\ gunRotX' = gunRotX + recoilRot
         /\ recoils' = Append(recoils, [startPos |-> gunZ + recoilZ,
                                        startRot |-> gunRotX + recoilRot,
                                        elapsed |-> 0])
    ELSE UNCHANGED recoilVars

\* the recoil closures `animate` of one animation frame, run in registration
\* order dt milliseconds after the previous frame, on the gun pose << z, r >>
RECURSIVE RunRecoils(_, _, _)
RunRecoils(todo, pose, dt) ==
    IF todo = << >>
    THEN [recoils |-> << >>, pose |-> pose]
    ELSE LET c    == Head(todo)
             e    == c.elapsed + dt
             now  == << c.startPos - RecoilEase(recoilZ, e),
                        c.startRot - RecoilEase(recoilRot, e) >>
             rest == RunRecoils(Tail(todo), now, dt)
         IN  [recoils |-> IF RecoilContinues(e)
                          THEN << [c EXCEPT !.elapsed = e] >> \o rest.recoils
                          ELSE rest.recoils,
              pose |-> rest.pose]

\* camera.getWorldDirection: the unit view direction << x, y, z >> of the
\* camera rig for a yaw and a pitch in quarter turns, in 1/DirScale
ViewDirection(k, p) ==
    IF p # 0
    THEN << 0, p * DirScale, 0 >>
    ELSE << (0 - Sin4(k)) * DirScale, 0, (0 - Cos4(k)) * DirScale >>

\* Vector3.multiplyScalar(0.5): scales the vector itself and returns it
HalfVector(v) == [i \in 1..3 |-> (v[i] * 5) \div 10]

\* factor applied to bulletDirection for the body's velocity
bulletSpeed == 50

\* bulletDirection after bullet.position.add(bulletDirection.multiplyScalar(0.5))
DirectionAfterStart(k, p) == HalfVector(ViewDirection(k, p))

\* velocity: new CANNON.Vec3(bulletDirection.x * 50, ...), in 1/Fixed
BulletVelocity(k, p) ==
    [i \in 1..3 |->
        RoundDiv(DirectionAfterStart(k, p)[i] * bulletSpeed * Fixed, DirScale)]

\* Player.shoot (writes bulletVars only); hit: the collision ray of the first,
\* synchronous updateBullet call finds an intersection
shoot(hit) ==
    LET b == spawned + 1 IN
    /\ spawned' = b
    /\ bulletStart' = [bulletStart EXCEPT ![b] = HalfVector(ViewDirection(yaw, pitch))]
    /\ bulletVelocity' = [bulletVelocity EXCEPT ![b] = BulletVelocity(yaw, pitch)]
    /\ recoil
    /\ bulletTimer' = [bulletTimer EXCEPT ![b] = "pending"]
    /\ bulletAge' = [bulletAge EXCEPT ![b] = 0]
    /\ IF hit
       THEN /\ bulletRemovals' = [bulletRemovals EXCEPT ![b] = @ + 1]
            /\ bulletRaf' = [bulletRaf EXCEPT ![b] = "none"]
            /\ UNCHANGED << bulletMeshes, bulletTrails, bulletBodies >>
       ELSE /\ bulletMeshes' = bulletMeshes \cup {b}
            /\ bulletTrails' = bulletTrails \cup {b}
            /\ bulletBodies' = bulletBodies \cup {b}
            /\ bulletRaf' = [bulletRaf EXCEPT ![b] = "scheduled"]
            /\ UNCHANGED bulletRemovals

\* one run of the closure updateBullet of bullet b from an animation frame
UpdateBullet(b, hit) ==
    /\ bulletRaf[b] = "due"
    /\ IF UpdateStops(bulletMeshes, b)
       THEN /\ bulletRaf' = [bulletRaf EXCEPT ![b] = "none"]
            /\ UNCHANGED << bulletMeshes, bulletTrails, bulletBodies,
                            bulletRemovals >>
       ELSE IF hit
       THEN /\ bulletMeshes' = bulletMeshes \ {b}
            /\ bulletTrails' = bulletTrails \ {b}
            /\ bulletBodies' = bulletBodies \ {b}
            /\ bulletRemovals' = [bulletRemovals EXCEPT ![b] = @ + 1]
            /\ bulletRaf' = [bulletRaf EXCEPT ![b] = "none"]
       ELSE /\ bulletRaf' = [bulletRaf EXCEPT ![b] = "scheduled"]
            /\ UNCHANGED << bulletMeshes, bulletTrails, bulletBodies,
                            bulletRemovals >>
    /\ UNCHANGED << spawned, bulletTimer, bulletAge, recoilVars, shotVars,
                    statsVars,
                    weaponVars, woodVars, swingVars, treeVars, inputVars,
                    bodyVars, bootVars, loopVars >>

\* the setTimeout callback of bullet b, run once its delay has passed
BulletTimeout(b) ==
    /\ bulletTimer[b] = "pending"
    /\ bulletAge[b] >= BulletLifetime
    /\ bulletTimer' = [bulletTimer EXCEPT ![b] = "fired"]
    /\ IF TimeoutRemoves(bulletMeshes, b)
       THEN /\ bulletMeshes' = bulletMeshes \ {b}
            /\ bulletTrails' = bulletTrails \ {b}
            /\ bulletBodies' = bulletBodies \ {b}
            /\ bulletRemovals' = [bulletRemovals EXCEPT ![b] = @ + 1]
       ELSE UNCHANGED << bulletMeshes, bulletTrails, bulletBodies,
                         bulletRemovals >>
    /\ UNCHANGED << spawned, bulletRaf, bulletAge, recoilVars, shotVars,
                    statsVars,
                    weaponVars, woodVars, swingVars, treeVars, inputVars,
                    bodyVars, bootVars, loopVars >>

-----------------------------------------------------------------------------
(* Player: input handlers registered by setupControls *)

MoveCodes == {"KeyW", "KeyS", "KeyA", "KeyD"}
WeaponCodes == {"Digit1", "Digit2"}

\* moveState after a keydown (down = TRUE) or keyup (down = FALSE) of code
KeyedState(ms, code, down) ==
    CASE code = "KeyW" -> [ms EXCEPT !.forward = down]
      [] code = "KeyS" -> [ms EXCEPT !.backward = down]
      [] code = "KeyA" -> [ms EXCEPT !.left = down]
      [] code = "KeyD" -> [ms EXCEPT !.right = down]
      [] OTHER -> ms

\* the keydown listener
KeyDown(code) ==
    /\ listening
    /\ moveState' = KeyedState(moveState, code, TRUE)
    /\ IF code = "Space" THEN jump ELSE UNCHANGED << isJumping, velY >>
    /\ CASE code = "Digit1" -> switchWeapon(PICKAXE)
         [] code = "Digit2" -> switchWeapon(GUN)
         [] OTHER -> UNCHANGED weaponVars
    /\ UNCHANGED << listening, pointerLocked, yaw, pitch, velX, velZ,
                    groundRay, bodyY, rigY, statsVars, woodVars, swingVars,
                    treeVars,
                    bulletVars, bootVars, loopVars >>

\* the keyup listener
KeyUp(code) ==
    /\ listening
    /\ moveState' = KeyedState(moveState, code, FALSE)
    /\ UNCHANGED << listening, pointerLocked, yaw, pitch, bodyVars, statsVars,
                    weaponVars, woodVars, swingVars, treeVars, bulletVars,
                    bootVars, loopVars >>

\* the mousemove listener; dx, dy: the pointer movement in quarter turns
MouseMove(dx, dy) ==
    /\ listening
    /\ IF pointerLocked
       THEN /\ yaw' = (yaw - dx) % 4
            /\ pitch' = Max(-1, Min(1, pitch - dy))
       ELSE UNCHANGED << yaw, pitch >>
    /\ UNCHANGED << listening, pointerLocked, moveState, bodyVars, statsVars,
                    weaponVars, woodVars, swingVars, treeVars, bulletVars,
                    bootVars, loopVars >>

\* variant of the mousedown test that forgets the pointer lock
PrimaryActionUnlocked(button, locked) == button = 0

\* event.button === 0 && document.pointerLockElement === document.body
PrimaryAction(button, locked) == button = 0 /\ locked

\* the mousedown listener; hit: see shoot
MouseDown(button, hit) ==
    /\ listening
    /\ IF PrimaryAction(button, pointerLocked)
       THEN IF currentWeapon = PICKAXE
            THEN swingPickaxe /\ UNCHANGED bulletVars
            ELSE spawned < MaxBullets /\ shoot(hit) /\ UNCHANGED swingVars
       ELSE UNCHANGED << swingVars, bulletVars >>
    /\ UNCHANGED << statsVars, weaponVars, woodVars, treeVars, inputVars,
                    bodyVars, bootVars, loopVars >>

\* the browser grants the pointer lock requested by the click listener, or
\* the user leaves it
PointerLockChange ==
    /\ listening
    /\ pointerLocked' = ~pointerLocked
    /\ UNCHANGED << listening, moveState, yaw, pitch, bodyVars, statsVars,
                    weaponVars, woodVars, swingVars, treeVars, bulletVars,
                    bootVars, loopVars >>

-----------------------------------------------------------------------------
(* Game: the frame callback *)

\* errors Game.animate may catch in one run of the model
MaxErrors == 2

\* where a run of Game.animate throws ("ok": nowhere)
Outcomes == {"ok", "world", "player", "render"}

\* half height of the player's box and length of the ground ray, both from
\* the body's centre, in millimetres
bodyHalfHeight == 900
rayLength == 1200

\* result.hasHit of the ground ray over flat ground, for a body whose
\* underside is h millimetres above it
RayHits(h) == h + bodyHalfHeight <= rayLength

\* what the physics step leaves on the player body: horizontal velocity
\* (x, z) in m/s, vertical velocity y in 1/Fixed m/s, the height h of the
\* body's underside above the ground in millimetres, the ground ray's result
AnyPhysics ==
    {[x |-> hv[1], y |-> v * Fixed, z |-> hv[2], ray |-> r,
      h |-> IF r THEN 0 ELSE rayLength] :
        hv \in HVelPairs, v \in VVelGrid, r \in BOOLEAN}

\* a body at rest on the ground
CalmPhysics == {[x |-> 0, y |-> 0, z |-> 0, ray |-> TRUE, h |-> 0]}

\* gravity of the physics world in mm/s^2, and fixed steps per second
gravity == 9820
stepsPerSecond == 60

\* one fixed step of physicsWorld.step(1/60, ...) on a body in free flight
\* over flat ground: the velocity takes gravity first, the position follows
\* the new velocity, and contact with the ground (restitution 0) stops it
BallisticPhysics ==
    LET vy == velY - RoundDiv(gravity * Fixed, 1000 * stepsPerSecond)
        hh == bodyY + RoundDiv(vy * 1000, Fixed * stepsPerSecond)
    IN  IF (bodyY = 0 /\ velY <= 0) \/ hh <= 0
        THEN CalmPhysics
        ELSE {[x |-> 0, y |-> vy, z |-> 0, ray |-> RayHits(hh), h |-> hh]}

\* variant: the next frame is requested at the end of the try block
RafAtEndOfTry(outcome) == IF outcome = "ok" THEN "scheduled" ELSE "none"

\* requestAnimationFrame is the first statement of animate, before the try
RafAfterAnimate(outcome) == "scheduled"

\* requestAnimationFrame calls of one animate call: the one before the try
RequestsMade(outcome) == 1

\* variant: render runs before the physics step and the player update
StepsDoneRenderFirst(outcome) ==
    CASE outcome = "world" -> << "render" >>
      [] outcome = "player" -> << "render", "world" >>
      [] outcome = "render" -> << >>
      [] OTHER -> << "render", "world", "player" >>

\* steps of the try block completed before the throw
StepsDone(outcome) ==
    CASE outcome = "world" -> << >>
      [] outcome = "player" -> << "world" >>
      [] outcome = "render" -> << "world", "player" >>
      [] OTHER -> << "world", "player", "render" >>

\* one call of Game.animate (writes bodyVars and loopVars)
GameAnimate(outcome, phys) ==
    /\ outcome # "ok" => errorsLogged < MaxErrors
    /\ gameRaf' = RafAfterAnimate(outcome)
    /\ frameLog' = StepsDone(outcome)
    /\ frameRequests' = RequestsMade(outcome)
    /\ errorsLogged' = errorsLogged + (IF outcome = "ok" THEN 0 ELSE 1)
    /\ UNCHANGED uncaught
    /\ CASE outcome = "world" -> UNCHANGED bodyVars
         [] outcome = "player" ->
                /\ velX' = phys.x * Fixed
                /\ velY' = phys.y
                /\ velZ' = phys.z * Fixed
                /\ bodyY' = phys.h
                /\ groundRay' = phys.ray
                /\ UNCHANGED << isJumping, rigY >>
         [] OTHER ->
                /\ velY' = phys.y
                /\ bodyY' = phys.h
                /\ groundRay' = phys.ray
                /\ applyMovement(phys.x * Fixed, phys.z * Fixed, phys.ray)
                /\ rigY' = RigPosition(phys.h)

-----------------------------------------------------------------------------
(* Browser scheduling *)

\* a registration made before this frame becomes due in it
NextFrame(raf) == IF raf = "scheduled" THEN "due" ELSE raf

\* a timeout whose delay has passed and that has not run yet
TimerOverdue(b) == bulletTimer[b] = "pending" /\ bulletAge[b] >= BulletLifetime

\* The browser starts the next animation frame dt milliseconds after the
\* previous one.  The callbacks of the previous frame have all run and the
\* timeouts that were due have fired.  Game.animate, registered first, is the
\* first callback of the frame; the other registered callbacks become due.
Frame(dt, outcome, phys) ==
    /\ gameState # "loading"
    /\ swingRaf # "due"
    /\ \A b \in Bullets : bulletRaf[b] # "due" /\ ~TimerOverdue(b)
    /\ swingRaf' = NextFrame(swingRaf)
    /\ swingElapsed' = IF isSwinging THEN swingElapsed + dt ELSE swingElapsed
    /\ bulletRaf' = [b \in Bullets |-> NextFrame(bulletRaf[b])]
    /\ bulletAge' = [b \in Bullets |->
                        IF bulletTimer[b] = "pending" THEN bulletAge[b] + dt
                        ELSE bulletAge[b]]
    /\ IF gameRaf = "scheduled"
       THEN GameAnimate(outcome, phys)
       ELSE UNCHANGED << bodyVars, loopVars >>
    /\ recoils' = RunRecoils(recoils, << gunZ, gunRotX >>, dt).recoils
    /\ gunZ' = RunRecoils(recoils, << gunZ, gunRotX >>, dt).pose[1]
    /\ gunRotX' = RunRecoils(recoils, << gunZ, gunRotX >>, dt).pose[2]
    /\ shakes' = RunShakes(shakes, treeRotation).shakes
    /\ particles' = RunParticles(particles).groups
    /\ sceneGroups' = sceneGroups - RunParticles(particles).removed
    /\ treeRotation' = RunShakes(shakes, treeRotation).rot
    /\ UNCHANGED << isSwinging, debugLine, pickaxeRotation, initialRotation,
                    swingChains, swingRefused, swingHits, spawned,
                    bulletMeshes, bulletTrails, bulletBodies, bulletTimer,
                    bulletRemovals, statsVars, weaponVars, woodVars, treeData,
                    treesChildren, treeBodies, hitCalls, hitReturned,
                    hitEffects, destructionEffects, followed, shotVars,
                    inputVars, bootVars >>

-----------------------------------------------------------------------------
(* Game: construction *)

\* what can fail while the DOMContentLoaded handler constructs the Game
BootFailures == {"none", "Renderer", "World", "PhysicsNull", "Player",
                 "InputManager", "NetworkManager"}

\* failures thrown inside the try block of the Game constructor
InTryFailures == {"World", "PhysicsNull", "Player", "InputManager",
                  "NetworkManager"}

\* the catch of the Game constructor handles the failure
CtorCatches(failure) == failure \in InTryFailures

\* variant: the constructor's catch throws the error again
BootCatchesRethrown(failure) == failure # "none"

\* the failure leaves the constructor and reaches the handler's catch
BootCatches(failure) == failure = "Renderer"

\* the World constructor has completed before the failure
WorldBuilt(failure) == failure \notin {"Renderer", "World"}

\* the Player constructor has completed before the failure
PlayerBuilt(failure) == failure \in {"none", "InputManager", "NetworkManager"}

\* the Game constructor has called the Player constructor before the failure
PlayerReached(failure) == failure \notin {"Renderer", "World", "PhysicsNull"}

\* no error thrown
NoError == "none"

\* what the world argument can be: undefined, an object without
\* getPhysicsWorld, or a World
WorldArgs == {"missing", "bare", "World"}

\* argument lists of new Player(scene, camera, physicsWorld, world); a
\* boolean tells whether the argument is an object
PlayerArgSets ==
    [scene : BOOLEAN, camera : BOOLEAN, physicsWorld : BOOLEAN,
     world : WorldArgs]

\* the arguments the Game constructor passes
FullArgs ==
    [scene |-> TRUE, camera |-> TRUE, physicsWorld |-> TRUE, world |-> "World"]

\* variant of the validation: the world argument is not looked at
ValidationErrorNoWorld(args) ==
    IF ~args.scene THEN "Scene is required for Player initialization"
    ELSE IF ~args.camera THEN "Camera is required for Player initialization"
    ELSE IF ~args.physicsWorld
    THEN "PhysicsWorld is required for Player initialization"
    ELSE NoError

\* the validation at the head of the Player constructor: the message of the
\* first check that throws
ValidationError(args) ==
    IF ~args.scene THEN "Scene is required for Player initialization"
    ELSE IF ~args.camera THEN "Camera is required for Player initialization"
    ELSE IF ~args.physicsWorld
    THEN "PhysicsWorld is required for Player initialization"
    ELSE IF args.world = "missing"
    THEN "World instance is required for Player initialization"
    ELSE IF args.world = "bare"
    THEN "World instance is missing getPhysicsWorld method"
    ELSE NoError

\* what a completed Player constructor has added or registered, in the
\* order of its statements
PlayerSteps ==
    << "cameraRig", "contactMaterial", "playerBody", "weaponModels",
       "crosshair", "woodUI", "weaponSlots", "listeners" >>

PlayerParts == {PlayerSteps[i] : i \in DOMAIN PlayerSteps}

\* the Player constructor: the error it throws and what it has made
PlayerConstructor(args) ==
    [error |-> ValidationError(args),
     made  |-> IF ValidationError(args) # NoError THEN {} ELSE PlayerParts]

\* new Player(scene, camera, physicsWorld, world) called on its own
NewPlayer(args) ==
    /\ gameState = "loading"
    /\ playerArgs = << >>
    /\ playerArgs' = << args >>
    /\ playerError' = PlayerConstructor(args).error
    /\ playerMade' = PlayerConstructor(args).made
    /\ listening' = ("listeners" \in PlayerConstructor(args).made)
    /\ weaponSlots' = IF "weaponSlots" \in PlayerConstructor(args).made
                      THEN createWeaponSlotsUI(HighlightSlots(<< >>, PICKAXE))
                      ELSE weaponSlots
    /\ UNCHANGED << pointerLocked, moveState, yaw, pitch, currentWeapon,
                    pickaxeVisible, gunVisible, statsVars, woodVars, swingVars,
                    treeVars, bodyVars, bulletVars, gameState, bootFailure,
                    overlays, ctorCaught, bootCaught, netVars, loopVars >>

\* the DOMContentLoaded handler: new Game(), whose last statement calls
\* animate() once
Bootstrap(failure, outcome, phys) ==
    /\ gameState = "loading"
    /\ bootFailure' = failure
    /\ gameState' = IF failure = "none" THEN "running" ELSE "failed"
    /\ ctorCaught' = ctorCaught + (IF CtorCatches(failure) THEN 1 ELSE 0)
    /\ bootCaught' = bootCaught + (IF BootCatches(failure) THEN 1 ELSE 0)
    /\ overlays' = overlays + (IF CtorCatches(failure) THEN 1 ELSE 0)
                            + (IF BootCatches(failure) THEN 1 ELSE 0)
    /\ IF WorldBuilt(failure)
       THEN /\ treeData' = [t \in Trees |-> TreeHealth]
            /\ treesChildren' = Trees
            /\ treeBodies' = Trees
            /\ UNCHANGED << hitCalls, hitReturned, hitEffects,
                            destructionEffects, effectVars >>
       ELSE UNCHANGED treeVars
    /\ listening' = PlayerBuilt(failure)
    /\ weaponSlots' = IF PlayerBuilt(failure)
                      THEN createWeaponSlotsUI(HighlightSlots(<< >>, PICKAXE))
                      ELSE weaponSlots
    /\ playerArgs' = IF PlayerReached(failure) THEN << FullArgs >>
                      ELSE playerArgs
    /\ playerMade' = IF PlayerBuilt(failure)
                     THEN PlayerConstructor(FullArgs).made ELSE playerMade
    /\ UNCHANGED << playerError, netVars >>
    /\ IF failure = "none"
       THEN GameAnimate(outcome, phys)
       ELSE UNCHANGED << bodyVars, loopVars >>
    /\ UNCHANGED << pointerLocked, moveState, yaw, pitch, currentWeapon,
                    pickaxeVisible, gunVisible, statsVars, woodVars, swingVars,
                    bulletVars >>

-----------------------------------------------------------------------------
(* NetworkManager *)

\* socket ids the server hands out
NumSockets == 4

SocketIds == 1..NumSockets

\* the initial value '' of localPlayerId
NoId == 0

\* #player-count before updatePlayerCount has written to it
NotWritten == -1

\* the text updatePlayerCount writes: players.size + 1
updatePlayerCount(map) == Cardinality(map) + 1

\* the test of the playerJoin and playerUpdate handlers
IsRemote(id) == id # localPlayerId

\* state that the network handlers leave alone
NetFrame ==
    UNCHANGED << statsVars, weaponVars, woodVars, swingVars, treeVars,
                 inputVars, bodyVars, bulletVars, gameState, bootFailure,
                 overlays, ctorCaught, bootCaught, ctorVars, loopVars >>

\* socket.on('connect'): the server gives the socket an id no connected
\* player has
Connect(id) ==
    /\ gameState = "running"
    /\ id \notin players
    /\ localPlayerId' = id
    /\ UNCHANGED << players, playerCount >>
    /\ NetFrame

\* socket.on('playerJoin')
PlayerJoin(id) ==
    /\ gameState = "running"
    /\ IF IsRemote(id)
       THEN /\ players' = players \cup {id}
            /\ playerCount' = updatePlayerCount(players')
       ELSE UNCHANGED << players, playerCount >>
    /\ UNCHANGED localPlayerId
    /\ NetFrame

\* socket.on('playerLeave')
PlayerLeave(id) ==
    /\ gameState = "running"
    /\ players' = players \ {id}
    /\ playerCount' = updatePlayerCount(players')
    /\ UNCHANGED localPlayerId
    /\ NetFrame

\* socket.on('playerUpdate')
PlayerUpdate(id) ==
    /\ gameState = "running"
    /\ players' = IF IsRemote(id) THEN players \cup {id} ELSE players
    /\ UNCHANGED << localPlayerId, playerCount >>
    /\ NetFrame

\* socket.on('disconnect')
Disconnect ==
    /\ gameState = "running"
    /\ players' = {}
    /\ playerCount' = updatePlayerCount(players')
    /\ UNCHANGED localPlayerId
    /\ NetFrame

------------------------------------------------------------------------------
(* Initial states *)

\* field initialisers of Player, and no bullet
FreshPlayer ==
    /\ health = 100
    /\ wood = 0
    /\ woodUI = 0
    /\ currentWeapon = PICKAXE
    /\ pickaxeVisible = PickaxeShown(PICKAXE)
    /\ gunVisible = GunShown(PICKAXE)
    /\ isSwinging = FALSE
    /\ swingRaf = "none"
    /\ swingElapsed = 0
    /\ pickaxeRotation = 0
    /\ initialRotation = 0
    /\ swingChains = 0
    /\ swingRefused = FALSE
    /\ swingHits = 0
    /\ debugLine = "absent"
    /\ pointerLocked = FALSE
    /\ moveState = [forward |-> FALSE, backward |-> FALSE, left |-> FALSE,
                    right |-> FALSE]
    /\ yaw = 0
    /\ pitch = 0
    /\ velX = 0 /\ velY = 0 /\ velZ = 0
    /\ isJumping = FALSE
    /\ groundRay = TRUE
    /\ bodyY = 0
    /\ rigY = eyeHeight
    /\ spawned = 0
    /\ bulletMeshes = {} /\ bulletTrails = {} /\ bulletBodies = {}
    /\ bulletRaf = [b \in Bullets |-> "none"]
    /\ bulletTimer = [b \in Bullets |-> "none"]
    /\ bulletAge = [b \in Bullets |-> 0]
    /\ bulletRemovals = [b \in Bullets |-> 0]
    /\ bulletStart = [b \in Bullets |-> << 0, 0, 0 >>]
    /\ bulletVelocity = [b \in Bullets |-> << 0, 0, 0 >>]
    /\ gunZ = 0 /\ gunRotX = 0
    /\ recoils = << >>

\* the page before DOMContentLoaded
InitLoading ==
    /\ FreshPlayer
    /\ weaponSlots = << >>
    /\ listening = FALSE
    /\ treeData = << >>
    /\ treesChildren = {}
    /\ treeBodies = {}
    /\ hitCalls = [t \in Trees |-> 0]
    /\ hitReturned = NoReturn
    /\ hitEffects = 0 /\ destructionEffects = 0
    /\ shakes = << >>
    /\ particles = << >>
    /\ sceneGroups = 0
    /\ treeRotation = [t \in Trees |-> << 0, 0 >>]
    /\ followed = FALSE
    /\ gameState = "loading"
    /\ bootFailure = "none"
    /\ overlays = 0 /\ ctorCaught = 0 /\ bootCaught = 0
    /\ players = {} /\ localPlayerId = NoId /\ playerCount = NotWritten
    /\ playerArgs = << >> /\ playerError = NoError /\ playerMade = {}
    /\ gameRaf = "none"
    /\ frameLog = << >>
    /\ frameRequests = 0
    /\ errorsLogged = 0 /\ uncaught = 0

\* the page after a construction without failure: createTrees has tracked
\* every tree, the Player constructor has run updateWeaponVisibility (while
\* weaponSlots was empty) and then createWeaponSlotsUI and setupControls, and
\* the constructor's animate() call has run its first frame
Running ==
    /\ FreshPlayer
    /\ weaponSlots = createWeaponSlotsUI(HighlightSlots(<< >>, PICKAXE))
    /\ listening = TRUE
    /\ treeData = [t \in Trees |-> TreeHealth]
    /\ treesChildren = Trees
    /\ treeBodies = Trees
    /\ hitCalls = [t \in Trees |-> 0]
    /\ hitReturned = NoReturn
    /\ hitEffects = 0 /\ destructionEffects = 0
    /\ shakes = << >>
    /\ particles = << >>
    /\ sceneGroups = 0
    /\ treeRotation = [t \in Trees |-> << 0, 0 >>]
    /\ gameState = "running"
    /\ bootFailure = "none"
    /\ overlays = 0 /\ ctorCaught = 0 /\ bootCaught = 0
    /\ players = {} /\ localPlayerId = NoId /\ playerCount = NotWritten
    /\ playerArgs = << FullArgs >>
    /\ playerError = NoError
    /\ playerMade = PlayerParts
    /\ gameRaf = "scheduled"
    /\ frameLog = << "world", "player", "render" >>
    /\ frameRequests = 1
    /\ errorsLogged = 0 /\ uncaught = 0

\* the running page, the frame callbacks of tree effects left out
Init == Running /\ followed = FALSE

\* the running page, the frame callbacks of tree effects followed
InitEffects == Running /\ followed = TRUE

-----------------------------------------------------------------------------
(* Specifications *)

\* milliseconds between two animation frames while bullets fly: a bullet
\* lives through three frames before its timeout
CoarseDeltas == {700}

\* swing, trees and wood
Next ==
    \/ PointerLockChange
    \/ \E button \in {0, 2} : MouseDown(button, FALSE)
    \/ \E target \in RayTargets : SwingAnimate(target)
    \/ \E dt \in FrameDeltas, phys \in CalmPhysics : Frame(dt, "ok", phys)

Spec == Init /\ [][Next]_vars

\* wood credited by swings at one tree and by addWood
NextWood ==
    \/ PointerLockChange
    \/ MouseDown(0, FALSE)
    \/ \E target \in RayTargets \cap {NoTree, 1} : SwingAnimate(target)
    \/ \E dt \in FrameDeltas, phys \in CalmPhysics : Frame(dt, "ok", phys)
    \/ \E amount \in WoodAmounts : addWood(amount)

SpecWood == Init /\ [][NextWood]_vars

\* hits that start a shake in one run of the model
MaxShakes == 2

\* hits on one tree and the frames that run its shake closures
NextShake ==
    \/ \E t \in Trees \cap {1} :
          hitCalls[t] < MaxShakes /\ HandleTreeHitCall(t)
    \/ \E dt \in FrameDeltas, phys \in CalmPhysics : Frame(dt, "ok", phys)

SpecShake == InitEffects /\ [][NextShake]_vars

\* hits on one tree until it falls: the last one may land while the effects
\* of the one before run, the others wait until the effects are over
NextParticles ==
    \/ \E t \in Trees \cap {1} :
          /\ hitCalls[t] = TreeHealth - 1
                \/ (particles = << >> /\ shakes = << >>)
          /\ HandleTreeHitCall(t)
    \/ \E phys \in CalmPhysics : Frame(75, "ok", phys)

\* the browser keeps delivering animation frames
SpecParticles ==
    /\ InitEffects
    /\ [][NextParticles]_vars
    /\ WF_vars(\E phys \in CalmPhysics : Frame(75, "ok", phys))

\* direct handleTreeHit calls on every tree, between swings that meet no tree
NextTrees ==
    \/ PointerLockChange
    \/ MouseDown(0, FALSE)
    \/ SwingAnimate(NoTree)
    \/ \E dt \in FrameDeltas, phys \in CalmPhysics : Frame(dt, "ok", phys)
    \/ \E t \in Trees : HandleTreeHitCall(t)

SpecTrees == Init /\ [][NextTrees]_vars

\* swings at one tree, with the browser producing frames and running the
\* swing callback whenever it is due
NextSwing ==
    \/ PointerLockChange
    \/ MouseDown(0, FALSE)
    \/ \E target \in RayTargets \cap {NoTree, 1} : SwingAnimate(target)
    \/ \E dt \in FrameDeltas, phys \in CalmPhysics : Frame(dt, "ok", phys)

SpecSwing ==
    /\ Init /\ [][NextSwing]_vars
    /\ WF_vars(\E dt \in FrameDeltas, phys \in CalmPhysics : Frame(dt, "ok", phys))
    /\ WF_vars(\E target \in RayTargets \cap {NoTree, 1} : SwingAnimate(target))

\* health and weapon selection
NextStats ==
    \/ \E amount \in HealthAmounts : damage(amount)
    \/ \E amount \in HealthAmounts : heal(amount)
    \/ \E code \in WeaponCodes : KeyDown(code)

SpecStats == Init /\ [][NextStats]_vars

\* mouse and weapon keys, swings that meet no tree, and bullets
NextInput ==
    \/ PointerLockChange
    \/ \E code \in WeaponCodes : KeyDown(code)
    \/ \E button \in {0, 2}, hit \in BOOLEAN : MouseDown(button, hit)
    \/ SwingAnimate(NoTree)
    \/ \E b \in Bullets, hit \in BOOLEAN : UpdateBullet(b, hit)
    \/ \E b \in Bullets : BulletTimeout(b)
    \/ \E dt \in CoarseDeltas, phys \in CalmPhysics : Frame(dt, "ok", phys)

SpecInput == Init /\ [][NextInput]_vars

\* shots in every view direction
NextShot ==
    \/ PointerLockChange
    \/ \E code \in WeaponCodes : KeyDown(code)
    \/ \E dx \in {0, 1}, dy \in {-1, 0, 1} : MouseMove(dx, dy)
    \/ \E hit \in BOOLEAN : MouseDown(0, hit)

SpecShot == Init /\ [][NextShot]_vars

\* shots and the frames that run their recoil closures
SpecRecoil == InitEffects /\ [][NextInput]_vars

\* the browser keeps producing frames, runs every due callback and fires
\* every due timeout
SpecInputLive ==
    /\ SpecInput
    /\ WF_vars(\E dt \in CoarseDeltas, phys \in CalmPhysics : Frame(dt, "ok", phys))
    /\ WF_vars(SwingAnimate(NoTree))
    /\ \A b \in Bullets : WF_vars(\E hit \in BOOLEAN : UpdateBullet(b, hit))
    /\ \A b \in Bullets : WF_vars(BulletTimeout(b))

\* movement keys, mouse look, jump and the per-frame movement
NextMove ==
    \/ PointerLockChange
    \/ \E code \in MoveCodes \cup {"Space"} : KeyDown(code)
    \/ \E code \in MoveCodes : KeyUp(code)
    \/ MouseMove(1, 0)
    \/ \E phys \in AnyPhysics : Frame(16, "ok", phys)

SpecMove == Init /\ [][NextMove]_vars

\* jumps of a body over flat ground, one physics step per frame
NextJump ==
    \/ KeyDown("Space")
    \/ \E phys \in BallisticPhysics : Frame(16, "ok", phys)

SpecJump == Init /\ [][NextJump]_vars

\* a body carried by the physics step while keys of one axis go down and up
CoastCodes == {"KeyW", "KeyS", "KeyA"}

NextCoast ==
    \/ \E code \in CoastCodes : KeyDown(code)
    \/ \E code \in CoastCodes : KeyUp(code)
    \/ \E phys \in AnyPhysics : Frame(16, "ok", phys)

SpecCoast == Init /\ [][NextCoast]_vars

\* construction of the game and the frame loop with failing steps
NextGame ==
    \/ \E failure \in BootFailures, outcome \in Outcomes, phys \in CalmPhysics :
           Bootstrap(failure, outcome, phys)
    \/ \E outcome \in Outcomes, phys \in CalmPhysics : Frame(16, outcome, phys)
    \/ \E code \in MoveCodes \cup {"Space"} : KeyDown(code)
    \/ \E code \in MoveCodes : KeyUp(code)

SpecGame == InitLoading /\ [][NextGame]_vars

\* a Player constructed on its own with any arguments, then the events its
\* listeners receive
NextCtor ==
    \/ \E args \in PlayerArgSets : NewPlayer(args)
    \/ \E code \in MoveCodes : KeyDown(code)
    \/ \E code \in MoveCodes : KeyUp(code)
    \/ PointerLockChange
    \/ MouseMove(1, 0)

SpecCtor == InitLoading /\ [][NextCtor]_vars

\* the events of the socket, in any order
NextNet ==
    \/ Disconnect
    \/ \E id \in SocketIds : Connect(id)
    \/ \E id \in SocketIds : PlayerJoin(id)
    \/ \E id \in SocketIds : PlayerLeave(id)
    \/ \E id \in SocketIds : PlayerUpdate(id)

SpecNet == Init /\ [][NextNet]_vars

-----------------------------------------------------------------------------
(* Properties *)

\* C1: for any sequence of damage(amount) and heal(amount) calls with any
\* numeric amounts, starting from health 100, getHealth() stays in [0,100].
C1_HealthInRange == health \in 0..100

\* C2: for any sequence of wood pickups, credited by a pickaxe hit or by
\* addWood(amount), getWood() stays in [0,500].
C2_WoodInRange == wood \in 0..500

\* C3: a tree created with hit counter 5 is destroyed by exactly its 5th
\* handleTreeHit call and by no earlier one; before it the tree is tracked
\* with counter 5 minus the calls made, and from the 5th call on it is no
\* child of the trees group the swing raycast targets and has no treeData
\* entry.
C3_DestroyedByFifthHit ==
    \A t \in Trees :
        IF hitCalls[t] < 5
        THEN /\ t \in DOMAIN treeData
             /\ treeData[t] = 5 - hitCalls[t]
             /\ t \in treesChildren
        ELSE /\ hitCalls[t] = 5
             /\ t \notin DOMAIN treeData
             /\ t \notin treesChildren
             /\ t \notin RayTargets

\* C3 witness: a tree has taken its 5th hit while another tree still stands
C3_Witness ==
    \E t, u \in Trees :
        /\ hitCalls[t] = 5 /\ t \notin DOMAIN treeData
        /\ u \in DOMAIN treeData /\ hitCalls[u] \in 1..4

\* C4: after construction and after any sequence of switchWeapon calls,
\* exactly one of pickaxeModel and gunModel is visible, and it is the model
\* of currentWeapon.
C4_OneWeaponVisible ==
    /\ pickaxeVisible # gunVisible
    /\ pickaxeVisible <=> (currentWeapon = "pickaxe")
    /\ gunVisible <=> (currentWeapon = "gun")

\* C4 witness: the gun has been equipped by a switch
C4_Witness == currentWeapon = "gun" /\ gunVisible /\ weaponSlots[2]

\* C5: Player.jump() changes the vertical velocity only when the ground ray
\* reports a hit; when the ray reports no hit, the vertical velocity and
\* isJumping are left unchanged.  Every keydown of Space, which runs jump(),
\* is such a step.
C5_JumpNeedsGround ==
    [][ KeyDown("Space") =>
          /\ (velY' # velY) => groundRay
          /\ ~groundRay => (velY' = velY /\ isJumping' = isJumping)
      ]_vars

\* C5 witness: a jump from the ground has set the vertical velocity
C5_Witness == groundRay /\ isJumping /\ velY = jumpForce * Fixed

\* C6: an exception thrown by world.update, player.update or the render call
\* in one animation frame is caught and does not stop the frame loop: no
\* error leaves animate, after every frame of the running game the next frame
\* is requested, and the frame that follows starts with world.update again
\* and completes a prefix of the same three steps.
C6_LoopSurvivesErrors ==
    /\ [](gameState = "running" => (gameRaf = "scheduled" /\ uncaught = 0))
    /\ [][ (errorsLogged' > errorsLogged)
             => (gameRaf' = "scheduled" /\ uncaught' = uncaught) ]_vars
    /\ [][ (gameState = "running" /\ errorsLogged > 0
            /\ (frameLog' # frameLog \/ errorsLogged' # errorsLogged))
             => (frameLog' \in {StepsDone(o) : o \in Outcomes}
                 /\ gameRaf' = "scheduled") ]_vars

\* C6 witness: after a frame whose step threw, a later frame completed all
\* three steps and the next frame is requested
C6_Witness ==
    /\ errorsLogged > 0
    /\ frameLog = << "world", "player", "render" >>
    /\ gameRaf = "scheduled"

\* C7: a failure thrown while the game is constructed is caught exactly once
\* and produces exactly one error overlay, and the animation loop is never
\* started: no frame is requested, no step of animate has run, and no later
\* step changes that.
C7_FailureCaughtOnce ==
    gameState = "failed" =>
        /\ bootFailure # "none"
        /\ ctorCaught + bootCaught = 1
        /\ overlays = 1
        /\ (bootFailure \in InTryFailures) => (ctorCaught = 1 /\ bootCaught = 0)
        /\ gameRaf = "none"
        /\ frameLog = << >>
        /\ errorsLogged = 0

\* C7 witness: the Player constructor threw after the World had been built
C7_Witness ==
    /\ gameState = "failed" /\ bootFailure = "Player"
    /\ treesChildren = Trees /\ overlays = 1

\* the window of C8 on the elapsed milliseconds of a 500 ms swing:
\* 0.45 <= min(1, elapsed / 500) <= 0.60
C8_Window(elapsed) ==
    LET e == IF elapsed > 500 THEN 500 ELSE elapsed
    IN  20 * e >= 9 * 500 /\ 5 * e <= 3 * 500

\* C8: the tree raycast and handleTreeHit run only in swing frames whose
\* progress lies in [0.45, 0.60]: every step that calls handleTreeHit, changes
\* a tree counter or draws the ray's debug line is a swing frame inside the
\* window, and a swing frame outside the window changes no tree counter and
\* no wood.
C8_HitsOnlyInWindow ==
    [][ /\ (hitCalls' # hitCalls \/ treeData' # treeData
             \/ (debugLine' = "drawn" /\ debugLine # "drawn"))
           => (swingRaf = "due" /\ C8_Window(swingElapsed))
        /\ (swingRaf = "due" /\ swingRaf' # "due" /\ ~C8_Window(swingElapsed))
           => (treeData' = treeData /\ hitCalls' = hitCalls /\ wood' = wood
               /\ woodUI' = woodUI /\ treesChildren' = treesChildren)
      ]_vars

\* C8 witness: a swing that hit a tree inside the window has run a later
\* frame past the window and is still going
C8_Witness ==
    /\ isSwinging /\ swingRaf = "scheduled"
    /\ swingElapsed > 300 /\ swingElapsed < 500
    /\ \E t \in Trees : hitCalls[t] > 0

\* the three objects of bullet b are in the scene and the physics world
\* together or not at all
C9_Together(b) ==
    /\ (b \in bulletMeshes) <=> (b \in bulletTrails)
    /\ (b \in bulletMeshes) <=> (b \in bulletBodies)

\* C9: every bullet spawned by shoot() is eventually removed, by the frame
\* whose collision ray hits or by the 2-second timeout; mesh, trail and body
\* leave together and exactly once; the timeout does nothing for a bullet
\* that is already removed; and the per-frame update of a removed bullet
\* stops without registering itself again.
C9_BulletRemovedOnce ==
    /\ [](\A b \in Bullets :
            /\ C9_Together(b)
            /\ bulletRemovals[b] <= 1
            /\ (b <= spawned /\ b \notin bulletMeshes) <=> (bulletRemovals[b] = 1)
            /\ (bulletTimer[b] = "fired" /\ b <= spawned) => b \notin bulletMeshes)
    /\ [][ \A b \in Bullets :
             /\ (BulletTimeout(b) /\ b \notin bulletMeshes)
                  => UNCHANGED << bulletMeshes, bulletTrails, bulletBodies,
                                  bulletRemovals, bulletRaf >>
             /\ ((\E hit \in BOOLEAN : UpdateBullet(b, hit)) /\ b \notin bulletMeshes)
                  => (bulletRaf'[b] = "none"
                      /\ UNCHANGED << bulletMeshes, bulletTrails, bulletBodies,
                                      bulletRemovals >>)
             /\ (bulletRaf[b] = "none" /\ b <= spawned) => bulletRaf'[b] = "none"
       ]_vars
    /\ \A b \in Bullets : (b \in bulletMeshes) ~> (b \notin bulletMeshes)

\* C9 witness: the first bullet was removed by its timeout while its update
\* closure is still due, and the second was removed by a hit while its
\* timeout is still pending; each was removed once
C9_Witness ==
    /\ spawned >= 2
    /\ bulletTimer[1] = "fired" /\ bulletRaf[1] = "due"
    /\ bulletTimer[2] = "pending" /\ bulletRaf[2] = "none"
    /\ bulletRemovals[1] = 1 /\ bulletRemovals[2] = 1
    /\ bulletMeshes = {} /\ bulletTrails = {} /\ bulletBodies = {}

\* rounding error allowed on the clamped speed, in 1/Fixed units
RoundTol == 2

C11_Steps == << "world", "player", "render" >>

\* C11: in every animation frame the steps run in the order physics step,
\* Player.update, render, each at most once, and exactly one next frame is
\* requested: the steps completed by an animate call are a prefix of that
\* order, and every frame of the running game makes one request and leaves
\* one registration.
C11_FrameOrder ==
    /\ [](\E n \in 0..3 : frameLog = SubSeq(C11_Steps, 1, n))
    /\ [](gameState = "running" => frameRequests = 1)
    /\ [][ (gameRaf = "scheduled"
            /\ \E outcome \in Outcomes, phys \in CalmPhysics :
                   Frame(16, outcome, phys))
             => /\ frameLog' \in {SubSeq(C11_Steps, 1, n) : n \in 0..3}
                /\ frameRequests' = 1
                /\ gameRaf' = "scheduled" ]_vars

\* C11 witness: a frame in which render threw after the physics step and
\* the player update had run, with the next frame requested
C11_Witness ==
    /\ gameState = "running" /\ errorsLogged > 0
    /\ frameLog = << "world", "player" >>
    /\ frameRequests = 1 /\ gameRaf = "scheduled"

\* C12: a mousedown starts a primary action only if it is the left button
\* and the pointer lock is held; it then calls swingPickaxe (which starts a
\* swing unless one is running) when the pickaxe is equipped and shoots when
\* the gun is equipped, never both; a mousedown without pointer lock, or of
\* another button, changes no state.
C12_PrimaryAction ==
    [][ /\ ((isSwinging' /\ ~isSwinging) \/ spawned' > spawned)
             => /\ pointerLocked
                /\ ~((isSwinging' /\ ~isSwinging) /\ spawned' > spawned)
                /\ (isSwinging' /\ ~isSwinging) => currentWeapon = PICKAXE
                /\ (spawned' > spawned) => currentWeapon = GUN
        /\ \A button \in {0, 2}, hit \in BOOLEAN :
             MouseDown(button, hit) =>
                /\ (button # 0 \/ ~pointerLocked) => UNCHANGED vars
                /\ (button = 0 /\ pointerLocked /\ currentWeapon = PICKAXE)
                     => /\ isSwinging' /\ swingRaf' # "none"
                        /\ UNCHANGED bulletVars
                /\ (button = 0 /\ pointerLocked /\ currentWeapon = GUN)
                     => /\ spawned' = spawned + 1
                        /\ UNCHANGED swingVars
      ]_vars

\* C12 witness: a left click with the pickaxe started a swing, and after a
\* switch to the gun a left click fired a bullet while the swing still runs
C12_Witness ==
    /\ pointerLocked /\ currentWeapon = GUN
    /\ isSwinging /\ swingRaf = "scheduled"
    /\ spawned = 1

\* C13: getTreeCount() is the number of trees created (NumTrees here, 50 in
\* the code) after World construction and never increases; it decreases
\* only in a handleTreeHit call, by exactly one, when the counter of the hit
\* tree goes from 1 to 0, which is the tree's 5th hit.
C13_TreeCount ==
    /\ []((\A t \in Trees : hitCalls[t] = 0) => getTreeCount = NumTrees)
    /\ [](getTreeCount <= NumTrees)
    /\ [][ /\ getTreeCount' <= getTreeCount
           /\ getTreeCount' # getTreeCount =>
                /\ getTreeCount' = getTreeCount - 1
                /\ \E t \in Trees :
                     /\ DOMAIN treeData' = DOMAIN treeData \ {t}
                     /\ t \in DOMAIN treeData
                     /\ treeData[t] = 1
                     /\ hitCalls'[t] = hitCalls[t] + 1
                     /\ hitCalls'[t] = TreeHealth
                     /\ SwingAnimate(t)
       ]_vars

\* C13 witness: one tree has been destroyed and the other has been hit and
\* is still counted
C13_Witness ==
    /\ getTreeCount = NumTrees - 1
    /\ \E t \in DOMAIN treeData : treeData[t] < TreeHealth

\* C14: in every state a tree has a treeData entry iff it is a child of the
\* trees group iff its collider is in the physics world; the handleTreeHit
\* call that brings a counter to zero removes all three together and spawns
\* one destruction burst, and no other step spawns one.
C14_TreeTriple ==
    /\ [](\A t \in Trees :
            /\ (t \in DOMAIN treeData) <=> (t \in treesChildren)
            /\ (t \in DOMAIN treeData) <=> (t \in treeBodies))
    /\ [][ \A t \in Trees :
             (t \in DOMAIN treeData /\ treeData[t] = 1 /\ SwingAnimate(t)
              /\ hitCalls'[t] # hitCalls[t])
                => /\ t \notin DOMAIN treeData'
                   /\ t \notin treesChildren'
                   /\ t \notin treeBodies'
                   /\ destructionEffects' = destructionEffects + 1 ]_vars
    /\ [][ destructionEffects' # destructionEffects
             => /\ destructionEffects' = destructionEffects + 1
                /\ getTreeCount' = getTreeCount - 1 ]_vars

\* C14 witness: one tree has been destroyed with its burst, and another one
\* still has its entry, its place in the group and its collider
C14_Witness ==
    /\ destructionEffects = 1
    /\ \E t, u \in Trees :
         /\ t \notin DOMAIN treeData /\ t \notin treesChildren
         /\ t \notin treeBodies
         /\ u \in DOMAIN treeData /\ u \in treesChildren /\ u \in treeBodies

\* C15: every started swing terminates when frames keep arriving: the swing
\* callback stops registering itself once progress reaches 1, and in that
\* frame the pickaxe rotation is back at its value at swing start and
\* isSwinging is false, so that the next click starts a new swing.
C15_SwingTerminates ==
    /\ [](isSwinging <=> swingRaf # "none")
    /\ [](~isSwinging => pickaxeRotation = initialRotation)
    /\ [][ (isSwinging /\ ~isSwinging')
             => /\ Progress(swingElapsed) = swingDuration
                /\ swingRaf' = "none"
                /\ pickaxeRotation' = initialRotation
                /\ initialRotation' = initialRotation ]_vars
    /\ [][ (isSwinging /\ isSwinging' /\ swingRaf = "due" /\ swingRaf' # "due")
             => Progress(swingElapsed) < swingDuration ]_vars
    /\ [][ (~isSwinging /\ pointerLocked /\ currentWeapon = PICKAXE
            /\ MouseDown(0, FALSE))
             => (isSwinging' /\ swingRaf' = "scheduled"
                 /\ initialRotation' = pickaxeRotation) ]_vars
    /\ isSwinging ~> ~isSwinging

\* C15 witness: a swing that hit the tree has ended, and a click has just
\* started the next swing from the restored rotation
C15_Witness ==
    /\ isSwinging /\ swingElapsed = 0 /\ swingRaf = "scheduled"
    /\ hitCalls[1] > 0
    /\ pickaxeRotation = 0 /\ initialRotation = 0


\* C16: while isSwinging is true a further swingPickaxe call has no effect,
\* so that at most one swing callback chain is registered at any time,
\* whatever the interleaving of clicks, weapon switches and frames.
C16_OneSwingChain ==
    /\ [](swingChains = IF isSwinging THEN 1 ELSE 0)
    /\ []((swingRaf # "none") <=> (swingChains = 1))
    /\ [][ (/\ isSwinging /\ pointerLocked /\ currentWeapon = PICKAXE
            /\ \E hit \in BOOLEAN : MouseDown(0, hit))
             => /\ swingRefused'
                /\ UNCHANGED << isSwinging, swingRaf, swingElapsed, debugLine,
                                pickaxeRotation, initialRotation, swingChains >>
                /\ UNCHANGED << statsVars, weaponVars, woodVars, treeVars,
                                inputVars, bodyVars, bulletVars, bootVars,
                                loopVars >> ]_vars
    /\ [][ (\E code \in WeaponCodes : KeyDown(code)) => UNCHANGED swingVars ]_vars

\* C16 witness: during one swing a click was refused, the weapon was switched
\* and a shot was fired, a frame has arrived, and one callback is registered
C16_Witness ==
    /\ isSwinging /\ swingRefused /\ swingRaf = "due" /\ swingChains = 1
    /\ currentWeapon = GUN /\ spawned > 0

\* C17: a single pickaxe swing registers at most one tree hit, however many
\* animation frames fall inside the hit-detection window (each handleTreeHit
\* call of the closure decrements one tree counter and credits wood).
C17_OneHitPerSwing == swingHits <= 1



\* C18: when wood is already 500, a valid pickaxe hit still decrements the
\* hit tree's counter (and destroys the tree at zero) while the wood count
\* and the wood display stay unchanged at 500.
C18_HitAtCap ==
    [][ \A t \in Trees :
          (/\ wood = WoodCap /\ TreeTracked(t)
           /\ InHitWindow(swingElapsed) /\ SwingAnimate(t))
            => /\ wood' = WoodCap
               /\ woodUI' = woodUI
               /\ (woodUI = WoodCap => woodUI' = WoodCap)
               /\ hitCalls'[t] = hitCalls[t] + 1
               /\ IF treeData[t] = 1
                  THEN /\ t \notin DOMAIN treeData'
                       /\ t \notin treesChildren' /\ t \notin treeBodies'
                  ELSE /\ t \in DOMAIN treeData'
                       /\ treeData'[t] = treeData[t] - 1 ]_vars

\* C18 witness: the second hit of the running swing destroyed tree 1 while
\* wood and its display are at the cap
C18_Witness ==
    /\ wood = WoodCap /\ woodUI = WoodCap
    /\ isSwinging /\ swingHits = 2
    /\ ~TreeTracked(1) /\ hitCalls[1] = TreeHealth


\* C19: handleTreeHit on an object that has no treeData entry returns 0 and
\* changes nothing: no counter changes, nothing is removed, and no hit or
\* destruction effect is spawned.
C19_UntrackedHit ==
    [][ \A t \in Trees :
          (~TreeTracked(t) /\ hitCalls'[t] = hitCalls[t] + 1)
            => /\ hitReturned' = 0
               /\ UNCHANGED << treeData, treesChildren, treeBodies,
                               hitEffects, destructionEffects >>
               /\ UNCHANGED << wood, woodUI >> ]_vars

\* C19 witness: tree 1 was destroyed by its fifth hit and hit once more; the
\* sixth call returned 0 and spawned no effect, tree 2 is untouched
C19_Witness ==
    /\ ~TreeTracked(1) /\ hitCalls[1] = TreeHealth + 1
    /\ hitReturned = 0
    /\ hitEffects = TreeHealth /\ destructionEffects = 1
    /\ TreeTracked(2) /\ treeData[2] = TreeHealth


\* valid hits so far: handleTreeHit calls on trees 1..n
RECURSIVE C20_HitsUpTo(_)
C20_HitsUpTo(n) == IF n = 0 THEN 0 ELSE hitCalls[n] + C20_HitsUpTo(n - 1)

\* C20: every handleTreeHit call on a tracked tree returns exactly 10, the
\* destroying call included; no hit decreases the player's wood (only an
\* addWood call can); a valid hit takes wood w <= 500 to min(500, w + 10), so
\* that from 0, by hits alone, wood after k valid hits is min(500, 10 * k).
C20_WoodPerHit ==
    /\ [][ \A t \in Trees :
             (TreeTracked(t) /\ hitCalls'[t] = hitCalls[t] + 1)
               => /\ hitReturned' = WoodPerHit
                  /\ wood' >= wood
                  /\ wood <= WoodCap => wood' = Min(WoodCap, wood + WoodPerHit)
                  /\ wood = Min(WoodCap, WoodPerHit * C20_HitsUpTo(NumTrees))
                       => wood' = Min(WoodCap,
                                      WoodPerHit * (C20_HitsUpTo(NumTrees) + 1)) ]_vars
    /\ [][ wood' < wood => \E amount \in WoodAmounts : addWood(amount) ]_vars

\* C20 witness: five hits from wood 0 destroyed tree 1; the destroying call
\* returned 10 and wood is 10 * 5
C20_Witness ==
    /\ ~TreeTracked(1) /\ hitCalls[1] = TreeHealth
    /\ hitReturned = WoodPerHit
    /\ wood = WoodPerHit * TreeHealth /\ woodUI = wood


\* C21: in every reachable state each tree tracked in treeData has a hit
\* counter between 1 and 5; a counter of 0 or below is never stored for a
\* tracked tree between two handleTreeHit calls.
C21_CounterRange ==
    \A t \in DOMAIN treeData : treeData[t] >= 1 /\ treeData[t] <= TreeHealth

\* C21 witness: tree 1 has taken four hits and is still tracked with counter
\* 1, tree 2 still has the counter createTrees gave it
C21_Witness ==
    /\ TreeTracked(1) /\ treeData[1] = 1 /\ hitCalls[1] = TreeHealth - 1
    /\ TreeTracked(2) /\ treeData[2] = TreeHealth

\* C22: after all shake animations of a surviving tree have finished, the
\* tree's rotation equals its rotation before the first hit, also when a
\* second hit landed while an earlier shake of the same tree was running.
C22_ShakeRestores ==
    \A t \in Trees :
        (TreeTracked(t) /\ \A i \in 1..Len(shakes) : shakes[i].tree # t)
            => treeRotation[t] = << 0, 0 >>

\* C23: after all recoil animations have finished, the gun model's z position
\* and x rotation equal their rest values from before the first shot, also
\* when further shots were fired while an earlier recoil was running.
C23_RecoilRestores == (recoils = << >>) => (gunZ = 0 /\ gunRotX = 0)

\* C24: every bullet is spawned with the same fixed initial speed: its
\* velocity equals the camera's unit view direction multiplied by 50, and its
\* start position is the camera position advanced 0.5 units along it.
C24_BulletVelocity ==
    [][ spawned' = spawned + 1
          => /\ bulletVelocity'[spawned'] =
                  [i \in 1..3 |->
                      RoundDiv(ViewDirection(yaw, pitch)[i] * 50 * Fixed,
                               DirScale)]
             /\ bulletStart'[spawned'] =
                  [i \in 1..3 |-> ViewDirection(yaw, pitch)[i] \div 2] ]_vars

\* C25: after a jump has been applied, no second jump is applied before the
\* player has left the ground and landed again: a Space press while the body
\* is still rising does not set the vertical velocity to jumpForce again.
C25_NoJumpWhileRising ==
    [][ (KeyDown("Space") /\ JumpAllowed(groundRay, isJumping))
          => (bodyY = 0 /\ velY <= 0) ]_vars


\* C26: once the Player is constructed, exactly one weapon slot element is
\* highlighted and it is the slot of the equipped weapon (slot 1 for the
\* pickaxe, slot 2 for the gun), also before the first weapon switch.
C26_OneSlotHighlighted ==
    (Len(weaponSlots) = 2)
        => /\ weaponSlots[1] = (currentWeapon = PICKAXE)
           /\ weaponSlots[2] = (currentWeapon = GUN)


\* velocity <<x, z>> is <<px, pz>> scaled down to the speed limit: same
\* direction, speed maxVelocity up to the rounding of the arithmetic
C27_ScaledToLimit(x, z, px, pz) ==
    LET cross == x * pz - z * px
    IN  /\ x * px >= 0 /\ z * pz >= 0
        /\ cross <= RoundTol * HorizontalVel(px, pz)
        /\ -cross <= RoundTol * HorizontalVel(px, pz)
        /\ HorizontalVel(x, z) >= maxVelocity * Fixed - RoundTol
        /\ HorizontalVel(x, z) <= maxVelocity * Fixed + RoundTol

\* C27: applyMovement never writes the vertical velocity, health, wood or the
\* weapon: after a frame the vertical velocity is the one the physics step
\* left, and the other three are unchanged. When no movement key is held (or
\* opposite keys cancel) and the ground ray reports no hit, the horizontal
\* velocity the physics step left is unchanged apart from the max-speed clamp.
C27_MovementWrites ==
    [][ \A phys \in AnyPhysics :
          (gameRaf = "scheduled" /\ Frame(16, "ok", phys))
            => /\ velY' = phys.y
               /\ UNCHANGED << health, wood, currentWeapon >>
               /\ rigY' = phys.h + eyeHeight
               /\ (MoveDirX(moveState) = 0 /\ MoveDirZ(moveState) = 0
                     /\ ~phys.ray)
                    => IF HorizontalVel(phys.x * Fixed, phys.z * Fixed)
                            <= maxVelocity * Fixed
                       THEN velX' = phys.x * Fixed /\ velZ' = phys.z * Fixed
                       ELSE C27_ScaledToLimit(velX', velZ', phys.x * Fixed,
                                              phys.z * Fixed)
      ]_vars

\* C27 witness: applyMovement ran with opposite keys held and the ray missing,
\* and the body kept the horizontal velocity the physics step gave it
C27_Witness ==
    /\ frameLog = << "world", "player", "render" >>
    /\ moveState.forward /\ moveState.backward
    /\ ~moveState.left /\ ~moveState.right
    /\ ~groundRay
    /\ velX = 5 * Fixed /\ velZ = -12 * Fixed


\* every group the model tracks is a child of the scene, holds at least one
\* particle, and holds exactly the particles whose closure is registered,
\* none of them below the removal size
C28_GroupsSound ==
    /\ sceneGroups = Len(particles)
    /\ \A k \in 1..Len(particles) :
          /\ particles[k].inScene
          /\ particles[k].children # {}
          /\ particles[k].pending = particles[k].children
          /\ \A i \in particles[k].children :
                ~ParticleGone(particles[k].scale[i])

\* C28: every particle of a hit or destruction effect terminates. Its scale
\* shrinks by the factor 0.95 per frame; when the scale is below 0.01 it is
\* removed from its group and its closure is not registered again; the group
\* leaves the scene exactly when its last particle is removed.
C28_ParticlesTerminate ==
    /\ []C28_GroupsSound
    /\ [][ \A k \in 1..Len(particles) :
             (Len(particles') = Len(particles)
                /\ particles[k].children = particles'[k].children)
               => \A i \in particles[k].children :
                     particles'[k].scale[i] * 100
                         \in (particles[k].scale[i] * shrinkPercent - 50)
                             ..(particles[k].scale[i] * shrinkPercent + 50)
         ]_<< particles >>
    /\ (particles # << >>) ~> (particles = << >>)

\* C28 witness: the tree has fallen and every particle group of its hits and
\* of its destruction has left the scene
C28_Witness ==
    /\ followed
    /\ destructionEffects = 1
    /\ hitEffects = TreeHealth
    /\ particles = << >>
    /\ sceneGroups = 0


\* C29: the Player constructor throws when scene, camera, physicsWorld or
\* world is missing, or when world has no getPhysicsWorld, and it throws
\* before it mutates anything: no camera rig, body, contact material or UI
\* element is added and no input listener is registered.
C29_ThrowsBeforeMutating ==
    \A k \in 1..Len(playerArgs) :
        (~playerArgs[k].scene \/ ~playerArgs[k].camera
           \/ ~playerArgs[k].physicsWorld \/ playerArgs[k].world # "World")
          => /\ playerError # NoError
             /\ playerMade = {}
             /\ ~listening
             /\ weaponSlots = << >>
             /\ moveState = [forward |-> FALSE, backward |-> FALSE,
                             left |-> FALSE, right |-> FALSE]

\* C29 witness: a constructor call whose only defect is a world without
\* getPhysicsWorld has thrown and made nothing
C29_Witness ==
    /\ playerArgs = << [scene |-> TRUE, camera |-> TRUE, physicsWorld |-> TRUE,
                        world |-> "bare"] >>
    /\ playerError = "World instance is missing getPhysicsWorld method"
    /\ playerMade = {}
    /\ ~listening


\* C30: after any sequence of connect, playerJoin, playerLeave, playerUpdate
\* and disconnect events, the player count shown by NetworkManager is the
\* number of entries of the players map plus one, and the map has no entry
\* for the local player's id.
C30_CountMatchesMap ==
    /\ playerCount # NotWritten => playerCount = Cardinality(players) + 1
    /\ localPlayerId \notin players

=============================================================================
